---------------------------- MODULE Spec2Model ----------------------------
(***************************************************************************)
(* The news digest bot of src/app.py: the interactions and alerts tables   *)
(* of the SQLite store, the /news pipeline (fetch, notify_alerts,          *)
(* summarize, digest, log_interaction) and the query and subscription      *)
(* commands.                                                               *)
(*                                                                         *)
(* Text is a sequence of one-character strings, so that lower(), strip(),  *)
(* startswith() and the word-boundary search of notify_alerts are computed *)
(* on characters as the program computes them.                             *)
(***************************************************************************)
EXTENDS Naturals, Integers, Sequences, FiniteSets, TLC

(***************************************************************************)
(* Bounds of the model.                                                    *)
(***************************************************************************)
\* Rows ever inserted into the tables (the sum of the AUTOINCREMENT counters).
MaxRows == 2

(***************************************************************************)
(* Characters and the str methods the handlers call.                       *)
(***************************************************************************)
UpperCase ==
    <<"A","B","C","D","E","F","G","H","I","J","K","L","M","N","O","P","Q","R","S","T","U","V","W","X","Y","Z">>

LowerCase ==
    <<"a","b","c","d","e","f","g","h","i","j","k","l","m","n","o","p","q","r","s","t","u","v","w","x","y","z">>

Digits ==
    <<"0","1","2","3","4","5","6","7","8","9">>

Whitespace == {" ", "\n", "\t"}

Range(s) == {s[i] : i \in 1..Len(s)}

IndexIn(s, x) == CHOOSE i \in 1..Len(s) : s[i] = x

\* the lower-case letter of each upper-case one
LowerOf == [c \in Range(UpperCase) |-> LowerCase[IndexIn(UpperCase, c)]]

\* str.lower() on one character
lower_char(ch) == IF ch \in DOMAIN LowerOf THEN LowerOf[ch] ELSE ch

\* str.lower()
lower(s) == [i \in 1..Len(s) |-> lower_char(s[i])]

RECURSIVE lstrip(_)
lstrip(s) ==
    IF s # <<>> /\ Head(s) \in Whitespace THEN lstrip(Tail(s)) ELSE s

RECURSIVE rstrip(_)
rstrip(s) ==
    IF s # <<>> /\ s[Len(s)] \in Whitespace
    THEN rstrip(SubSeq(s, 1, Len(s) - 1))
    ELSE s

\* str.strip()
strip(s) == lstrip(rstrip(s))

\* sep.join(parts)
RECURSIVE join(_, _)
join(sep, parts) ==
    IF parts = <<>> THEN <<>>
    ELSE IF Len(parts) = 1 THEN parts[1]
    ELSE parts[1] \o sep \o join(sep, Tail(parts))

\* str.startswith(prefix)
startswith(s, p) == Len(p) <= Len(s) /\ SubSeq(s, 1, Len(p)) = p

\* str.startswith((p1, p2, ...))
startswith_any(s, ps) == \E p \in ps : startswith(s, p)

\* str.isdigit()
isdigit(s) == s # <<>> /\ \A i \in 1..Len(s) : s[i] \in Range(Digits)

\* str(n) of a non-negative integer
RECURSIVE str(_)
str(n) ==
    IF n < 10 THEN <<Digits[n + 1]>>
    ELSE str(n \div 10) \o <<Digits[(n % 10) + 1]>>

\* int(s) of a string of decimal digits
RECURSIVE int(_)
int(s) ==
    IF s = <<>> THEN 0
    ELSE 10 * int(SubSeq(s, 1, Len(s) - 1)) + (IndexIn(Digits, s[Len(s)]) - 1)

(***************************************************************************)
(* String literals of the program.                                         *)
(***************************************************************************)
DEFAULT_TOPIC ==
    <<"I","n","d","i","a">>

NO_GNEWS_KEY ==
    <<"E","r","r","o","r",":"," ","G","N","e","w","s"," ","A","P","I"," ","K","e","y"," ","n","o","t"," ","f","o","u","n","d",".">>

GNEWS_403 ==
    <<"E","r","r","o","r",":"," ","I","n","v","a","l","i","d"," ","o","r"," ","e","x","p","i","r","e","d"," ","G","N","e","w","s"," ","A","P","I"," ","k","e","y"," ","(","4","0","3"," ","F","o","r","b","i","d","d","e","n",")",".">>

GNEWS_429 ==
    <<"E","r","r","o","r",":"," ","G","N","e","w","s"," ","R","e","q","u","e","s","t"," ","l","i","m","i","t"," ","r","e","a","c","h","e","d"," ","(","4","2","9"," ","T","o","o"," ","M","a","n","y"," ","R","e","q","u","e","s","t","s",")",".">>

GNEWS_STATUS_HEAD ==
    <<"E","r","r","o","r",":"," ","U","n","e","x","p","e","c","t","e","d"," ","r","e","s","p","o","n","s","e"," ","f","r","o","m"," ","G","N","e","w","s"," ","(","s","t","a","t","u","s"," ">>

GNEWS_STATUS_TAIL ==
    <<")",".">>

GNEWS_NETWORK_HEAD ==
    <<"E","r","r","o","r",":"," ","N","e","t","w","o","r","k"," ","i","s","s","u","e"," ","o","c","c","u","r","r","e","d"," ","w","h","i","l","e"," ","c","o","n","t","a","c","t","i","n","g"," ","G","N","e","w","s",":"," ">>

NO_NEWS_HEAD ==
    <<"N","o"," ","n","e","w","s"," ","f","o","u","n","d"," ","f","o","r"," ","'">>

NO_NEWS_TAIL ==
    <<"'"," ","a","t"," ","t","h","e"," ","m","o","m","e","n","t",".">>

NO_DESCRIPTION ==
    <<"N","o"," ","d","e","s","c","r","i","p","t","i","o","n"," ","a","v","a","i","l","a","b","l","e",".">>

TITLE_SEP ==
    <<" ","-"," ">>

PREFIX_ERROR ==
    <<"E","r","r","o","r",":">>

PREFIX_NO_NEWS ==
    <<"N","o"," ","n","e","w","s">>

NO_GEMINI_KEY ==
    <<"A","I"," ","s","u","m","m","a","r","i","z","a","t","i","o","n"," ","f","a","i","l","e","d",":"," ","G","e","m","i","n","i"," ","A","P","I"," ","K","e","y"," ","m","i","s","s","i","n","g",".">>

SUMMARIZE_EXC_HEAD ==
    <<"A","n"," ","u","n","e","x","p","e","c","t","e","d"," ","e","r","r","o","r"," ","o","c","c","u","r","r","e","d"," ","d","u","r","i","n","g"," ","s","u","m","m","a","r","i","z","a","t","i","o","n",":"," ">>

PREFIX_AI_FAILED ==
    <<"A","I"," ","s","u","m","m","a","r","i","z","a","t","i","o","n"," ","f","a","i","l","e","d",":">>

PREFIX_GEMINI_ERROR ==
    <<"G","e","m","i","n","i"," ","A","I"," ","A","P","I"," ","e","r","r","o","r",":">>

CHANNEL_PREFIX ==
    <<"-","1","0","0">>

(***************************************************************************)
(* Inputs: the chats that talk to the bot, the arguments they pass, and    *)
(* what the external services answer.                                      *)
(***************************************************************************)
Chats == {41, 42}

T_India ==
    <<"I","n","d","i","a">>

T_chip ==
    <<"c","h","i","p">>

T_air ==
    <<"a","i","r">>

\* context.args of /news
TopicArgs == {<<>>, <<T_India>>}

\* context.args of /alert and /removealert
KeywordArgs == {<<>>, <<T_India>>, <<T_chip>>, <<T_air>>}

\* context.args of /history
HistoryArgs == {<<>>, <<<<"1">>>>, <<<<"0">>>>, <<<<"-","1">>>>}

\* one article of the GNews answer: a title, and no description
ARTICLE_TITLE ==
    <<"I","n","d","i","a"," ","c","h","i","p"," ","f","o","r"," ","a","i","r","l","i","n","e","s">>

\* response.text of the model
SUMMARY_TEXT ==
    <<" ","I","n","d","i","a"," ","s","h","i","p","s"," ","a"," ","c","h","i","p",".","\n">>

\* the message of an exception raised by the model call
QUOTA ==
    <<"q","u","o","t","a">>

\* the message of a requests.exceptions.RequestException
TIMED_OUT ==
    <<"t","i","m","e","d"," ","o","u","t">>

(***************************************************************************)
(* The database files.  DB_PATH is memory.db in the directory of app.py;   *)
(* the relative path "memory.db" is memory.db in the working directory.    *)
(***************************************************************************)
AppDir == "appdir"

OtherDir == "otherdir"

Dirs == {AppDir, OtherDir}

VARIABLES
    cwd,            \* the working directory of the process
    GNEWS_API_KEY,  \* TRUE iff the variable is set in the environment
    GEMINI_API_KEY, \* TRUE iff the variable is set in the environment
    CHANNEL_ID,     \* TELEGRAM_CHAT_ID, "" when unset
    tables,         \* tables[d]: memory.db in d has the two tables
    interactions,   \* interactions[d]: the rows of the table, in rowid order
    alerts,         \* alerts[d]: the rows of the table, in rowid order
    sqlite_sequence,\* sqlite_sequence[d][t]: the largest id ever given in t
    h,              \* the frame of the handler the dispatcher is running
    sent            \* the messages that handler handed to the transport

vars == <<cwd, GNEWS_API_KEY, GEMINI_API_KEY, CHANNEL_ID, tables,
          interactions, alerts, sqlite_sequence, h, sent>>

env == <<cwd, GNEWS_API_KEY, GEMINI_API_KEY, CHANNEL_ID, tables>>

\* os.path.join(os.path.dirname(__file__), "memory.db")
DB_PATH == AppDir

\* sqlite3.connect("memory.db")
MEMORY_DB == cwd

\* What a handler holds of sqlite3 at an await: the connections it has
\* opened and not closed, and whether a statement that writes is not
\* committed.
NoConn == [open |-> 0, tx |-> FALSE]

\* a pass that closes its connection after its loop only
notify_alerts_db_open == <<"connect", "select">>

\* the calls on sqlite3 a handler makes between two awaits, in their order
notify_alerts_db == <<"connect", "select", "close">>
log_interaction_db == <<"connect", "write", "commit", "close">>
history_command_db == <<"connect", "select", "close">>
mytopics_command_db == <<"connect", "select", "close">>
discover_command_db == <<"connect", "select", "select", "close">>
alert_command_db == <<"connect", "write", "commit", "close">>
alerts_command_db == <<"connect", "select", "close">>
removealert_command_db == <<"connect", "write", "commit", "close">>
trending_command_db == <<"connect", "select", "close">>

\* sqlite3.connect, execute, commit, close
connection_call(c, call) ==
    CASE call = "connect" -> [c EXCEPT !.open = @ + 1]
      [] call = "write" -> [c EXCEPT !.tx = TRUE]
      [] call = "commit" -> [c EXCEPT !.tx = FALSE]
      [] call = "close" -> [open |-> c.open - 1, tx |-> FALSE]
      [] OTHER -> c

\* what is held after the calls of ops
RECURSIVE connection_after(_)
connection_after(ops) ==
    IF ops = <<>> THEN NoConn
    ELSE connection_call(connection_after(SubSeq(ops, 1, Len(ops) - 1)),
                         ops[Len(ops)])

\* The frame of no handler.
Frame0 ==
    [cmd |-> "none", pc |-> "idle", chat_id |-> 0, keyword |-> <<>>,
     input_topic |-> <<>>,
     news_data |-> <<>>, summary |-> <<>>, rows |-> <<>>, idx |-> 0,
     already_notified |-> {}, unexplored |-> {}, n |-> 0, result |-> <<>>, removed |-> 0,
     logged |-> 0, raised_in |-> "none", conn |-> NoConn]

\* A message handed to context.bot.send_message; ok is FALSE when the call
\* raised.
Msg(to, kind, text, ok) == [to |-> to, kind |-> kind, text |-> text, ok |-> ok]

\* The deployments the model starts from: the working directory, whether
\* an earlier run started beside app.py, and the environment.
Deployments ==
    {[cwd |-> AppDir, earlier |-> FALSE, gnews |-> TRUE, gemini |-> TRUE,
      channel |-> <<>>],
     [cwd |-> AppDir, earlier |-> FALSE, gnews |-> FALSE, gemini |-> TRUE,
      channel |-> <<>>],
     [cwd |-> AppDir, earlier |-> FALSE, gnews |-> TRUE, gemini |-> FALSE,
      channel |-> <<>>],
     [cwd |-> OtherDir, earlier |-> TRUE, gnews |-> TRUE, gemini |-> TRUE,
      channel |-> <<"-","1","0","0","1">>],
     [cwd |-> OtherDir, earlier |-> FALSE, gnews |-> TRUE, gemini |-> TRUE,
      channel |-> <<>>]}

\* init_db and init_alerts_db run at import, in the working directory; the
\* file beside app.py has its tables if an earlier run started there.
Init ==
    /\ \E dep \in Deployments :
         /\ cwd = dep.cwd
         /\ GNEWS_API_KEY = dep.gnews
         /\ GEMINI_API_KEY = dep.gemini
         /\ CHANNEL_ID = dep.channel
         /\ tables = [d \in Dirs |-> d = dep.cwd \/ (d = AppDir /\ dep.earlier)]
    /\ interactions = [d \in Dirs |-> <<>>]
    /\ alerts = [d \in Dirs |-> <<>>]
    /\ sqlite_sequence = [d \in Dirs |-> [t \in {"interactions", "alerts"} |-> 0]]
    /\ h = Frame0
    /\ sent = <<>>


(***************************************************************************)
(* re: the pattern notify_alerts builds and re.search with re.IGNORECASE.  *)
(***************************************************************************)
\* The characters re.escape puts a backslash before.
SPECIAL_CHARS ==
    {"(", ")", "[", "]", "{", "}", "?", "*", "+", "-", "|", "^", "$", "\\",
     ".", "&", "~", "#", " ", "\t", "\n"}

\* a keyword put into the pattern as it is
re_unescaped(s) == s

\* re.escape(keyword)
RECURSIVE re_escape(_)
re_escape(s) ==
    IF s = <<>> THEN <<>>
    ELSE (IF Head(s) \in SPECIAL_CHARS THEN <<"\\", Head(s)>> ELSE <<Head(s)>>)
         \o re_escape(Tail(s))

\* r'\b{}\b'.format(re.escape(keyword))
alert_pattern(keyword) == <<"\\", "b">> \o re_escape(keyword) \o <<"\\", "b">>

\* The compiled pattern: \b is a word boundary, a backslash makes the next
\* character a literal, an unescaped dot is any character but a newline.
\* (Every other metacharacter reaches the compiler escaped.)
RECURSIVE re_compile(_)
re_compile(p) ==
    IF p = <<>> THEN <<>>
    ELSE IF Head(p) = "\\" /\ Len(p) >= 2
    THEN <<(IF p[2] = "b" THEN [op |-> "boundary", ch |-> ""]
                          ELSE [op |-> "literal", ch |-> p[2]])>>
         \o re_compile(SubSeq(p, 3, Len(p)))
    ELSE <<(IF Head(p) = "." THEN [op |-> "any", ch |-> ""]
                             ELSE [op |-> "literal", ch |-> Head(p)])>>
         \o re_compile(Tail(p))

WordChars ==
    Range(UpperCase) \cup Range(LowerCase) \cup Range(Digits) \cup {"_"}

\* \w
is_word_char(ch) == ch \in WordChars

\* the character after position p (p characters precede it) is a word one
word_at(text, p) == p >= 0 /\ p < Len(text) /\ is_word_char(text[p + 1])

\* \b at position p
is_boundary(text, p) == word_at(text, p - 1) # word_at(text, p)

\* the compiled pattern matches at position p
RECURSIVE match_at(_, _, _)
match_at(atoms, text, p) ==
    IF atoms = <<>> THEN TRUE
    ELSE LET a == Head(atoms) IN
         CASE a.op = "boundary" ->
                is_boundary(text, p) /\ match_at(Tail(atoms), text, p)
           [] a.op = "any" ->
                /\ p < Len(text)
                /\ text[p + 1] # "\n"
                /\ match_at(Tail(atoms), text, p + 1)
           [] OTHER ->
                /\ p < Len(text)
                /\ lower_char(text[p + 1]) = lower_char(a.ch)
                /\ match_at(Tail(atoms), text, p + 1)

\* re.search(pattern, text, flags=re.IGNORECASE) is not None
re_search(pattern, text) ==
    LET atoms == re_compile(pattern)
    IN  \E p \in 0..Len(text) : match_at(atoms, text, p)

(***************************************************************************)
(* SQL: the statements the handlers execute, on a table given as the       *)
(* sequence of its rows in rowid order.                                    *)
(***************************************************************************)
\* every enumeration of a finite set
RECURSIVE Enumerations(_)
Enumerations(S) ==
    IF S = {} THEN {<<>>}
    ELSE UNION {{<<x>> \o r : r \in Enumerations(S \ {x})} : x \in S}

\* ORDER BY key DESC LIMIT n over the rows S, each [key, val]: every order
\* the engine may give to rows of equal key.
RECURSIVE order_by_desc_limit(_, _)
order_by_desc_limit(S, n) ==
    IF n = 0 \/ S = {} THEN {<<>>}
    ELSE UNION {{<<x.val>> \o r : r \in order_by_desc_limit(S \ {x}, n - 1)} :
                x \in {y \in S : \A z \in S : z.key <= y.key}}

\* INSERT INTO alerts (chat_id, keyword) VALUES (?, ?)
insert_alert(tbl, id, chat_id, keyword) ==
    Append(tbl, [id |-> id, chat_id |-> chat_id, keyword |-> keyword])

\* a DELETE without its chat_id = ?
delete_keyword_of_all(tbl, chat_id, keyword) ==
    SelectSeq(tbl, LAMBDA r : r.keyword # keyword)

\* a DELETE that stops at the first row it finds
delete_first_alert(tbl, chat_id, keyword) ==
    LET hits == {i \in 1..Len(tbl) :
                    tbl[i].chat_id = chat_id /\ tbl[i].keyword = keyword}
    IN  IF hits = {} THEN tbl
        ELSE LET k == CHOOSE i \in hits : \A j \in hits : i <= j
             IN  SubSeq(tbl, 1, k - 1) \o SubSeq(tbl, k + 1, Len(tbl))

\* DELETE FROM alerts WHERE chat_id = ? AND keyword = ?
delete_alert(tbl, chat_id, keyword) ==
    SelectSeq(tbl, LAMBDA r : ~(r.chat_id = chat_id /\ r.keyword = keyword))

\* cursor.rowcount of that DELETE
delete_rowcount(tbl, chat_id, keyword) ==
    Len(SelectSeq(tbl, LAMBDA r : r.chat_id = chat_id /\ r.keyword = keyword))

\* SELECT keyword FROM alerts WHERE chat_id = ?
select_keywords(tbl, chat_id) ==
    LET mine == SelectSeq(tbl, LAMBDA r : r.chat_id = chat_id)
    IN  [i \in 1..Len(mine) |-> mine[i].keyword]

\* SELECT DISTINCT chat_id, keyword FROM alerts: the distinct pairs, in any
\* order
select_distinct_alerts(tbl) ==
    Enumerations({<<tbl[i].chat_id, tbl[i].keyword>> : i \in 1..Len(tbl)})

\* an insert that overwrites the row the chat already has for the topic
replace_interaction(tbl, id, chat_id, input_topic, news_data, summary, now) ==
    LET new == [id |-> id, chat_id |-> chat_id, input_topic |-> input_topic,
                news_data |-> news_data, summary |-> summary,
                timestamp |-> now]
        old == {i \in 1..Len(tbl) : /\ tbl[i].chat_id = chat_id
                                     /\ tbl[i].input_topic = input_topic}
    IN  IF old = {} THEN Append(tbl, new)
        ELSE [i \in 1..Len(tbl) |-> IF i \in old THEN new ELSE tbl[i]]

\* INSERT INTO interactions (chat_id, input_topic, news_data, summary)
\* VALUES (?, ?, ?, ?), the timestamp being CURRENT_TIMESTAMP
insert_interaction(tbl, id, chat_id, input_topic, news_data, summary, now) ==
    Append(tbl, [id |-> id, chat_id |-> chat_id, input_topic |-> input_topic,
                 news_data |-> news_data, summary |-> summary,
                 timestamp |-> now])

\* CURRENT_TIMESTAMP counts whole seconds and does not go back: an insert
\* reads the second of the latest row of the table, or a later one.
CURRENT_TIMESTAMP(tbl) ==
    IF tbl = <<>> THEN {1}
    ELSE {tbl[Len(tbl)].timestamp, tbl[Len(tbl)].timestamp + 1}

RowsOf(tbl) == {tbl[i] : i \in 1..Len(tbl)}

\* SELECT timestamp, input_topic, summary FROM interactions
\* WHERE chat_id = ? ORDER BY timestamp DESC LIMIT ?
select_history(tbl, chat_id, n) ==
    LET mine == {r \in RowsOf(tbl) : r.chat_id = chat_id}
        keyed == {[key |-> r.timestamp, val |-> r] : r \in mine}
    IN  {[i \in 1..Len(q) |-> <<q[i].timestamp, q[i].input_topic, q[i].summary>>] :
         q \in order_by_desc_limit(keyed, n)}

\* SELECT input_topic, COUNT(*) as count FROM <rows> GROUP BY input_topic
group_by_topic(rows) ==
    {[key |-> Cardinality({r \in rows : r.input_topic = t}),
      val |-> <<t, Cardinality({r \in rows : r.input_topic = t})>>] :
     t \in {r.input_topic : r \in rows}}

\* the grouping of /mytopics without its WHERE chat_id = ?
select_mytopics_of_all(tbl, chat_id, limit) ==
    order_by_desc_limit(group_by_topic(RowsOf(tbl)), limit)

\* SELECT input_topic, COUNT(*) as count FROM interactions WHERE chat_id = ?
\* GROUP BY input_topic ORDER BY count DESC LIMIT 5
select_mytopics(tbl, chat_id, limit) ==
    order_by_desc_limit(
        group_by_topic({r \in RowsOf(tbl) : r.chat_id = chat_id}), limit)

\* SELECT input_topic, COUNT(*) as count FROM interactions
\* GROUP BY input_topic ORDER BY count DESC LIMIT 5
select_trending(tbl, limit) ==
    order_by_desc_limit(group_by_topic(RowsOf(tbl)), limit)

\* the topics of /discover's second query without its WHERE chat_id = ?
select_personal_of_all(tbl, chat_id) == {r.input_topic : r \in RowsOf(tbl)}

\* SELECT DISTINCT input_topic FROM interactions WHERE chat_id = ?
select_personal(tbl, chat_id) ==
    {r.input_topic : r \in {x \in RowsOf(tbl) : x.chat_id = chat_id}}

(***************************************************************************)
(* Limits written in the statements.                                       *)
(***************************************************************************)
HISTORY_DEFAULT == 3

MYTOPICS_LIMIT == 5

TRENDING_LIMIT == 5

DISCOVER_LIMIT == 10

(***************************************************************************)
(* The dispatcher runs one handler at a time: the Application is built     *)
(* without concurrent updates.  A handler starts on an idle frame; when it *)
(* has returned or raised, the dispatcher takes the next update.  Where a  *)
(* send_message is the last statement of a handler, its exception ends    *)
(* the handler as its return does, and the model does not tell them apart. *)
(***************************************************************************)
Idle == h.pc = "idle"

\* the state of a handler after its last send_message
Sent(ok) == IF ok THEN "done" ELSE "raised"

\* where the exception of that send_message surfaces
Raised(ok, where) == IF ok THEN "none" ELSE where

RECURSIVE Sum(_, _)
Sum(f, S) ==
    IF S = {} THEN 0
    ELSE LET x == CHOOSE y \in S : TRUE IN f[x] + Sum(f, S \ {x})

\* the rows ever inserted, in both tables of both files
RowsInserted ==
    Sum([d \in Dirs |-> sqlite_sequence[d]["alerts"]
                          + sqlite_sequence[d]["interactions"]], Dirs)

\* the model inserts at most MaxRows rows
Room == RowsInserted < MaxRows

Exit ==
    /\ h.pc \in {"done", "raised"}
    /\ h' = Frame0
    /\ sent' = <<>>
    /\ UNCHANGED <<env, interactions, alerts, sqlite_sequence>>

(***************************************************************************)
(* /alert, /alerts, /removealert                                           *)
(***************************************************************************)
alert_command(chat_id, args) ==
    /\ Idle
    /\ IF args = <<>>
       THEN /\ h' = [Frame0 EXCEPT !.cmd = "alert", !.chat_id = chat_id,
                                   !.pc = "done"]
            /\ sent' = <<Msg(str(chat_id), "alert_usage", <<>>, TRUE)>>
            /\ UNCHANGED <<alerts, sqlite_sequence>>
       ELSE LET keyword == lower(strip(join(<<" ">>, args)))
                id == sqlite_sequence[MEMORY_DB]["alerts"] + 1
            IN  /\ Room
                /\ alerts' = [alerts EXCEPT ![MEMORY_DB] =
                                insert_alert(@, id, str(chat_id), keyword)]
                /\ sqlite_sequence' =
                       [sqlite_sequence EXCEPT ![MEMORY_DB]["alerts"] = id]
                /\ h' = [Frame0 EXCEPT !.cmd = "alert", !.chat_id = chat_id,
                                       !.keyword = keyword,
                                       !.conn = connection_after(
                                                    alert_command_db),
                                       !.pc = "done"]
                /\ sent' = <<Msg(str(chat_id), "alert_set", keyword, TRUE)>>
    /\ UNCHANGED <<env, interactions>>

alerts_command(chat_id) ==
    /\ Idle
    /\ LET rows == select_keywords(alerts[MEMORY_DB], str(chat_id))
       IN
             /\ h' = [Frame0 EXCEPT !.cmd = "alerts", !.chat_id = chat_id,
                                    !.conn = connection_after(
                                                 alerts_command_db),
                                    !.result = rows, !.pc = "done"]
             /\ sent' = <<Msg(str(chat_id),
                              IF rows = <<>> THEN "alerts_none" ELSE "alerts_list",
                              rows, TRUE)>>
    /\ UNCHANGED <<env, interactions, alerts, sqlite_sequence>>

removealert_command(chat_id, args) ==
    /\ Idle
    /\ IF args = <<>>
       THEN /\ h' = [Frame0 EXCEPT !.cmd = "removealert",
                                   !.chat_id = chat_id, !.pc = "done"]
            /\ sent' = <<Msg(str(chat_id), "removealert_usage", <<>>, TRUE)>>
            /\ UNCHANGED alerts
       ELSE LET keyword == lower(strip(join(<<" ">>, args)))
                removed == delete_rowcount(alerts[MEMORY_DB], str(chat_id),
                                           keyword)
            IN  /\ alerts' = [alerts EXCEPT ![MEMORY_DB] =
                                delete_alert(@, str(chat_id), keyword)]
                /\ h' = [Frame0 EXCEPT !.cmd = "removealert",
                                       !.chat_id = chat_id,
                                       !.keyword = keyword,
                                       !.conn = connection_after(
                                                    removealert_command_db),
                                       !.removed = removed, !.pc = "done"]
                /\ sent' = <<Msg(str(chat_id),
                                 IF removed # 0 THEN "removed"
                                                ELSE "no_alert_found",
                                 keyword, TRUE)>>
    /\ UNCHANGED <<env, interactions, sqlite_sequence>>

(***************************************************************************)
(* /history, /mytopics, /trending, /discover                               *)
(***************************************************************************)
\* int(args[0]) if args and args[0].isdigit() else 3
history_limit(args) ==
    IF args # <<>> /\ isdigit(args[1]) THEN int(args[1]) ELSE HISTORY_DEFAULT

history_command(chat_id, args) ==
    /\ Idle
    /\ LET n == history_limit(args)
       IN  \E rows \in select_history(interactions[MEMORY_DB], str(chat_id), n) :
             /\ h' = [Frame0 EXCEPT !.cmd = "history", !.chat_id = chat_id,
                                    !.conn = connection_after(
                                                 history_command_db),
                                    !.n = n, !.result = rows, !.pc = "done"]
             /\ sent' = <<Msg(str(chat_id),
                              IF rows = <<>> THEN "history_none" ELSE "history",
                              rows, TRUE)>>
    /\ UNCHANGED <<env, interactions, alerts, sqlite_sequence>>

mytopics_command(chat_id) ==
    /\ Idle
    /\ \E rows \in select_mytopics(interactions[MEMORY_DB], str(chat_id),
                                   MYTOPICS_LIMIT) :
         /\ h' = [Frame0 EXCEPT !.cmd = "mytopics", !.chat_id = chat_id,
                                !.conn = connection_after(
                                             mytopics_command_db),
                                !.result = rows, !.pc = "done"]
         /\ sent' = <<Msg(str(chat_id),
                          IF rows = <<>> THEN "mytopics_none" ELSE "mytopics",
                          rows, TRUE)>>
    /\ UNCHANGED <<env, interactions, alerts, sqlite_sequence>>

trending_command(chat_id) ==
    /\ Idle
    /\ \E rows \in select_trending(interactions[MEMORY_DB], TRENDING_LIMIT) :
         /\ h' = [Frame0 EXCEPT !.cmd = "trending", !.chat_id = chat_id,
                                !.conn = connection_after(
                                             trending_command_db),
                                !.result = rows, !.pc = "done"]
         /\ sent' = <<Msg(str(chat_id),
                          IF rows = <<>> THEN "trending_none" ELSE "trending",
                          rows, TRUE)>>
    /\ UNCHANGED <<env, interactions, alerts, sqlite_sequence>>

discover_command(chat_id) ==
    /\ Idle
    /\ \E top \in select_trending(interactions[MEMORY_DB], DISCOVER_LIMIT) :
         LET trending == {top[i][1] : i \in 1..Len(top)}
             personal == select_personal(interactions[MEMORY_DB], str(chat_id))
             unexplored == trending \ personal
         IN  /\ h' = [Frame0 EXCEPT !.cmd = "discover", !.chat_id = chat_id,
                                    !.conn = connection_after(
                                                 discover_command_db),
                                    !.unexplored = unexplored, !.pc = "done"]
             /\ sent' = <<Msg(str(chat_id),
                              IF unexplored = {} THEN "discover_none"
                                                 ELSE "discover",
                              unexplored, TRUE)>>
    /\ UNCHANGED <<env, interactions, alerts, sqlite_sequence>>

(***************************************************************************)
(* /news: get_news, notify_alerts, summarize_with_ai, the digest and       *)
(* log_interaction.  One action runs the handler from one await to the     *)
(* next.                                                                   *)
(***************************************************************************)
\* The answers of GNews the model draws from: a status code, the articles
\* of the body, or a network failure.
GNewsArticles ==
    {<<>>, <<[title |-> ARTICLE_TITLE, description |-> NO_DESCRIPTION]>>}

GNewsAnswers ==
    {[status |-> 429, articles |-> <<>>, network |-> FALSE],
     [status |-> 0, articles |-> <<>>, network |-> TRUE]}
    \cup {[status |-> 200, articles |-> a, network |-> FALSE] :
          a \in GNewsArticles}

\* the string get_news returns for a topic, given the answer of GNews
get_news_text(topic_or_category, answer) ==
    IF answer.network THEN GNEWS_NETWORK_HEAD \o TIMED_OUT
    ELSE IF answer.status = 403 THEN GNEWS_403
    ELSE IF answer.status = 429 THEN GNEWS_429
    ELSE IF answer.status # 200
    THEN GNEWS_STATUS_HEAD \o str(answer.status) \o GNEWS_STATUS_TAIL
    ELSE IF answer.articles = <<>>
    THEN NO_NEWS_HEAD \o topic_or_category \o NO_NEWS_TAIL
    ELSE join(<<"\n">>,
              [i \in 1..Len(answer.articles) |->
                  answer.articles[i].title \o TITLE_SEP
                      \o answer.articles[i].description])

\* the strings get_news can return for a topic
get_news(topic_or_category) ==
    IF ~GNEWS_API_KEY THEN {NO_GNEWS_KEY}
    ELSE {get_news_text(topic_or_category, answer) : answer \in GNewsAnswers}

\* the strings summarize_with_ai can return
summarize_with_ai(text) ==
    IF ~GEMINI_API_KEY THEN {NO_GEMINI_KEY}
    ELSE {strip(SUMMARY_TEXT), SUMMARIZE_EXC_HEAD \o QUOTA}

\* " ".join(context.args).lower().strip() or "India"
news_topic(args) ==
    LET t == strip(lower(join(<<" ">>, args)))
    IN  IF t = <<>> THEN DEFAULT_TOPIC ELSE t

\* news_data.startswith(("Error:", "No news"))
fetch_failed(news_data) ==
    startswith_any(news_data, {PREFIX_ERROR, PREFIX_NO_NEWS})

\* summary.startswith(("AI summarization failed:", "Gemini AI API error:"))
summary_failed(summary) ==
    startswith_any(summary, {PREFIX_AI_FAILED, PREFIX_GEMINI_ERROR})

\* CHANNEL_ID and str(CHANNEL_ID).startswith("-100")
broadcasts == CHANNEL_ID # <<>> /\ startswith(CHANNEL_ID, CHANNEL_PREFIX)

\* a loop that looks its row up in the table again before it notifies
alert_due_live(rows, i, news_data, already_notified) ==
    /\ re_search(alert_pattern(rows[i][2]), news_data)
    /\ rows[i][1] \notin already_notified
    /\ \E r \in RowsOf(alerts[DB_PATH]) :
          r.chat_id = rows[i][1] /\ r.keyword = rows[i][2]

\* a loop that finds no row to notify
alert_never_due(rows, i, news_data, already_notified) == FALSE

\* the condition of the loop body of notify_alerts on the row rows[i]
alert_due(rows, i, news_data, already_notified) ==
    /\ re_search(alert_pattern(rows[i][2]), news_data)
    /\ rows[i][1] \notin already_notified

\* the next row, from rows[from] on, the loop sends an alert for; 0 if none
next_alert(rows, from, news_data, already_notified) ==
    LET due == {i \in from..Len(rows) :
                  alert_due(rows, i, news_data, already_notified)}
    IN  IF due = {} THEN 0 ELSE CHOOSE i \in due : \A j \in due : i <= j

news_command(chat_id, args) ==
    /\ Idle
    /\ \E ok \in BOOLEAN :
         /\ h' = [Frame0 EXCEPT !.cmd = "news", !.chat_id = chat_id,
                                !.input_topic = news_topic(args),
                                !.pc = IF ok THEN "get_news" ELSE "raised",
                                !.raised_in = Raised(ok, "news_command")]
         /\ sent' = <<Msg(str(chat_id), "searching", news_topic(args), ok)>>
    /\ UNCHANGED <<env, interactions, alerts, sqlite_sequence>>

news_get_news ==
    /\ h.pc = "get_news"
    /\ \E text \in get_news(h.input_topic) :
         h' = [h EXCEPT !.news_data = text, !.pc = "notify_alerts"]
    /\ UNCHANGED <<env, interactions, alerts, sqlite_sequence, sent>>

\* notify_alerts up to its loop: the SELECT raises when the file at DB_PATH
\* has no alerts table.
notify_alerts_select ==
    /\ h.pc = "notify_alerts"
    /\ IF ~tables[DB_PATH]
       THEN h' = [h EXCEPT !.pc = "raised", !.raised_in = "notify_alerts",
                           !.conn = connection_after(
                                        SubSeq(notify_alerts_db, 1, 2))]
       ELSE \E rows \in select_distinct_alerts(alerts[DB_PATH]) :
              h' = [h EXCEPT !.rows = rows, !.idx = 1, !.pc = "notify_loop",
                             !.conn = connection_after(notify_alerts_db)]
    /\ UNCHANGED <<env, interactions, alerts, sqlite_sequence, sent>>

\* the loop of notify_alerts, up to and including its next send_message
notify_alerts_loop ==
    /\ h.pc = "notify_loop"
    /\ LET k == next_alert(h.rows, h.idx, h.news_data, h.already_notified)
       IN  IF k = 0
           THEN /\ h' = [h EXCEPT !.idx = Len(h.rows) + 1, !.pc = "notified"]
                /\ sent' = sent
           ELSE \E ok \in BOOLEAN :
                  /\ sent' = Append(sent, Msg(str(int(h.rows[k][1])), "alert",
                                              h.rows[k][2], ok))
                  /\ h' = IF ok
                          THEN [h EXCEPT !.idx = k + 1,
                                         !.already_notified =
                                             @ \cup {h.rows[k][1]}]
                          ELSE [h EXCEPT !.idx = k, !.pc = "raised",
                                         !.raised_in = "notify_alerts"]
    /\ UNCHANGED <<env, interactions, alerts, sqlite_sequence>>

news_after_alerts ==
    /\ h.pc = "notified"
    /\ IF fetch_failed(h.news_data)
       THEN \E ok \in BOOLEAN :
              /\ sent' = Append(sent, Msg(str(h.chat_id), "news_data",
                                          h.news_data, ok))
              /\ h' = [h EXCEPT !.pc = Sent(ok),
                                !.raised_in = Raised(ok, "news_command")]
       ELSE /\ h' = [h EXCEPT !.pc = "summarize"]
            /\ sent' = sent
    /\ UNCHANGED <<env, interactions, alerts, sqlite_sequence>>

news_summarize ==
    /\ h.pc = "summarize"
    /\ \E s \in summarize_with_ai(h.news_data) :
         h' = [h EXCEPT !.summary = s, !.pc = "summarized"]
    /\ UNCHANGED <<env, interactions, alerts, sqlite_sequence, sent>>

news_after_summary ==
    /\ h.pc = "summarized"
    /\ \E ok \in BOOLEAN :
         IF summary_failed(h.summary)
         THEN /\ sent' = Append(sent, Msg(str(h.chat_id), "summary_error",
                                          h.summary, ok))
              /\ h' = [h EXCEPT !.pc = Sent(ok),
                                !.raised_in = Raised(ok, "news_command")]
         ELSE /\ sent' = Append(sent, Msg(str(h.chat_id), "digest",
                                          h.summary, ok))
              /\ h' = [h EXCEPT !.pc = IF ok THEN "digest_sent" ELSE "raised",
                                !.raised_in = Raised(ok, "news_command")]
    /\ UNCHANGED <<env, interactions, alerts, sqlite_sequence>>

\* the broadcast to the channel; its exception is caught
news_broadcast ==
    /\ h.pc = "digest_sent"
    /\ broadcasts
    /\ \E ok \in BOOLEAN :
         sent' = Append(sent, Msg(CHANNEL_ID, "digest", h.summary, ok))
    /\ h' = [h EXCEPT !.pc = "broadcast_done"]
    /\ UNCHANGED <<env, interactions, alerts, sqlite_sequence>>

\* log_interaction: the INSERT on the file at DB_PATH
log_interaction(chat_id, input_topic, news_data, summary) ==
    \E now \in CURRENT_TIMESTAMP(interactions[DB_PATH]) :
      LET id == sqlite_sequence[DB_PATH]["interactions"] + 1
      IN  /\ interactions' = [interactions EXCEPT ![DB_PATH] =
                                insert_interaction(@, id, str(chat_id),
                                    input_topic, news_data, summary, now)]
          /\ sqlite_sequence' =
                 [sqlite_sequence EXCEPT ![DB_PATH]["interactions"] = id]

news_log ==
    /\ \/ h.pc = "broadcast_done"
       \/ h.pc = "digest_sent" /\ ~broadcasts
    /\ IF ~tables[DB_PATH]
       THEN /\ h' = [h EXCEPT !.pc = "raised", !.raised_in = "log_interaction",
                              !.conn = connection_after(
                                           SubSeq(log_interaction_db, 1, 2))]
            /\ UNCHANGED <<interactions, sqlite_sequence>>
       ELSE /\ Room
            /\ log_interaction(h.chat_id, h.input_topic, h.news_data, h.summary)
            /\ h' = [h EXCEPT !.logged = 1, !.pc = "done",
                              !.conn = connection_after(log_interaction_db)]
    /\ UNCHANGED <<env, alerts, sent>>

(***************************************************************************)
(* The specification.                                                      *)
(***************************************************************************)
Next ==
    \/ \E c \in Chats, a \in TopicArgs : news_command(c, a)
    \/ news_get_news
    \/ notify_alerts_select
    \/ notify_alerts_loop
    \/ news_after_alerts
    \/ news_summarize
    \/ news_after_summary
    \/ news_broadcast
    \/ news_log
    \/ \E c \in Chats, a \in HistoryArgs : history_command(c, a)
    \/ \E c \in Chats : mytopics_command(c)
    \/ \E c \in Chats : trending_command(c)
    \/ \E c \in Chats : discover_command(c)
    \/ \E c \in Chats, a \in KeywordArgs : alert_command(c, a)
    \/ \E c \in Chats : alerts_command(c)
    \/ \E c \in Chats, a \in KeywordArgs : removealert_command(c, a)
    \/ Exit

Spec == Init /\ [][Next]_vars

(***************************************************************************)
(* What the claims speak of.                                               *)
(***************************************************************************)
\* the results summarize_with_ai returns when it could not summarize
summarize_error(summary) ==
    summary = NO_GEMINI_KEY \/ startswith(summary, SUMMARIZE_EXC_HEAD)

\* the /news handler has fetched, and the fetch succeeded
FetchSucceeded == h.news_data # <<>> /\ ~fetch_failed(h.news_data)

\* the /news handler has ended, by returning or by raising
NewsEnded == h.cmd = "news" /\ h.pc \in {"done", "raised"}

\* the invocation of notify_alerts by the /news handler read its rows and
\* has ended, by returning or by raising
NotifyEnded == h.cmd = "news" /\ h.idx >= 1 /\ h.pc # "notify_loop"

\* the messages of one kind the handler handed to the transport
SentOfKind(kind) == SelectSeq(sent, LAMBDA m : m.kind = kind)

\* the alerts notify_alerts sent to chat cs in this invocation, delivered or
\* not
AlertsTo(cs) == SelectSeq(sent, LAMBDA m : m.kind = "alert" /\ m.to = cs)

\* the messages the transport delivered
Delivered == SelectSeq(sent, LAMBDA m : m.ok)

\* the rows of the snapshot that belong to chat cs and match the text
Qualifying(cs) ==
    {i \in 1..Len(h.rows) :
        /\ h.rows[i][1] = cs
        /\ re_search(alert_pattern(h.rows[i][2]), h.news_data)}

Min(S) == CHOOSE i \in S : \A j \in S : i <= j

(* C1: when the fetched text begins with "Error:" or "No news", the /news
   request delivers no alert notification to any chat, appends no
   interaction record, and the only message it delivers after the fetch
   (the progress message precedes it) is the fetched text, verbatim, to the
   requesting chat. *)
C1_FetchFailureOnlyForwardsText ==
    (h.cmd = "news" /\ fetch_failed(h.news_data)) =>
        /\ h.logged = 0
        /\ \A i \in 1..Len(Delivered) :
             /\ Delivered[i].kind # "alert"
             /\ \/ i = 1 /\ Delivered[i].kind = "searching"
                \/ /\ Delivered[i].kind = "news_data"
                   /\ Delivered[i].to = str(h.chat_id)
                   /\ Delivered[i].text = h.news_data

(* C2: when summarize_with_ai returns one of its error results, the one for
   an exception of the model call included, the /news request appends no
   interaction record. *)
C2_SummaryErrorAppendsNothing ==
    (h.cmd = "news" /\ summarize_error(h.summary)) => h.logged = 0

(* C3: a failure inside notify_alerts (the alerts table cannot be read, or a
   send of an alert raises) does not end the /news request: with a fetch
   that succeeded the request goes on to summarize, and with a summary that
   succeeded the digest is sent to the requesting chat and the record is
   appended; with the alerts table unreadable no notification is emitted. *)
C3_MatcherFailureDoesNotBlock ==
    /\ (NewsEnded /\ h.raised_in = "notify_alerts" /\ FetchSucceeded) =>
          /\ h.summary # <<>>
          /\ ~summarize_error(h.summary) =>
                /\ \E i \in 1..Len(sent) :
                     sent[i].kind = "digest" /\ sent[i].to = str(h.chat_id)
                /\ h.logged = 1
    /\ (h.cmd = "news" /\ ~tables[DB_PATH]) => SentOfKind("alert") = <<>>

(* C4: in one invocation of notify_alerts every chat is sent at most one
   notification, exactly one iff at least one of its keywords in the rows
   read matches the text, and that one names the first matching keyword of
   the chat in the order of the rows. *)
C4_OneAlertPerQualifyingChat ==
    NotifyEnded =>
        \A c \in Chats :
            LET got == AlertsTo(str(c))
                q == Qualifying(str(c))
            IN  /\ Len(got) <= 1
                /\ Len(got) = 1 <=> q # {}
                /\ Len(got) = 1 => got[1].text = h.rows[Min(q)][2]

(* C5: the table /alert writes is the table notify_alerts reads: when an
   invocation of notify_alerts has returned, every chat that holds a
   subscription, stored by /alert and not removed, whose keyword occurs in
   the text as a whole word has been sent a notification, whatever the
   working directory. *)
C5_SubscribedChatIsNotified ==
    (h.cmd = "news" /\ h.pc = "notified") =>
        \A i \in 1..Len(alerts[MEMORY_DB]) :
            LET r == alerts[MEMORY_DB][i]
            IN  re_search(alert_pattern(r.keyword), h.news_data) =>
                    \E j \in 1..Len(sent) :
                        sent[j].kind = "alert" /\ sent[j].to = r.chat_id

\* NotifyEnded with a return: what C4 states holds of every invocation of
\* notify_alerts in which no send_message raises.
NotifyReturned_OneAlertPerQualifyingChat ==
    (h.cmd = "news" /\ h.idx >= 1 /\ h.pc # "notify_loop"
        /\ h.raised_in # "notify_alerts") =>
        \A c \in Chats :
            LET got == AlertsTo(str(c))
                q == Qualifying(str(c))
            IN  /\ Len(got) <= 1
                /\ Len(got) = 1 <=> q # {}
                /\ Len(got) = 1 => got[1].text = h.rows[Min(q)][2]

\* what the history query hands back of a row
HistoryRow(r) == <<r.timestamp, r.input_topic, r.summary>>

\* the n latest rows of S, the latest first, rows of one timestamp by
\* descending id
RECURSIVE RecentFirst(_, _)
RecentFirst(S, n) ==
    IF n = 0 \/ S = {} THEN <<>>
    ELSE LET x == CHOOSE y \in S : \A z \in S :
                    \/ z.timestamp < y.timestamp
                    \/ z.timestamp = y.timestamp /\ z.id <= y.id
         IN  <<HistoryRow(x)>> \o RecentFirst(S \ {x}, n - 1)

(* C6: immediately after log_interaction(c, t, n, s) the history query of
   chat c with limit 1 returns exactly the record just appended, whatever
   the store held before (rows of c with the same timestamp included) and
   whatever file each of the two opens. *)
C6_AppendThenHistoryOne ==
    LET tbl == interactions[DB_PATH]
    IN  (/\ h.cmd = "history" /\ h.pc = "done" /\ h.n = 1
         /\ tbl # <<>>
         /\ tbl[Len(tbl)].chat_id = str(h.chat_id)) =>
            h.result = <<HistoryRow(tbl[Len(tbl)])>>

(* C7: the history query of chat c with limit n returns the rows of chat c
   only, at most n of them, the latest first by timestamp and rows of equal
   timestamp by descending id: rows inserted in sequence come back in
   reverse order of insertion. *)
C7_HistoryMostRecentFirst ==
    (h.cmd = "history" /\ h.pc = "done") =>
        h.result =
            RecentFirst({r \in RowsOf(interactions[MEMORY_DB]) :
                            r.chat_id = str(h.chat_id)}, h.n)

(* C9: the input_topic of every stored interaction record is lower-cased
   and trimmed, the one of a /news without argument included. *)
C9_StoredTopicNormalized ==
    \A d \in Dirs : \A i \in 1..Len(interactions[d]) :
        interactions[d][i].input_topic
            = strip(lower(interactions[d][i].input_topic))

(* C8: /alert inserts a row every time, duplicates of (c, k) included;
   /removealert k of chat c deletes every row of (c, k) in one DELETE and
   no other row, counts the rows it deleted, and answers "removed" when
   that count is at least 1 and "no alert found" when it is 0, never with
   an error. *)
C8_SubscribeKeepsDuplicatesRemoveDeletesAll ==
    [][LET before == alerts[MEMORY_DB]
           after == alerts'[MEMORY_DB]
           c == str(h'.chat_id)
           k == h'.keyword
           m == Cardinality({i \in 1..Len(before) :
                    before[i].chat_id = c /\ before[i].keyword = k})
       IN  /\ (Idle /\ h'.cmd = "alert" /\ k # <<>>) =>
                 /\ Len(after) = Len(before) + 1
                 /\ SubSeq(after, 1, Len(before)) = before
                 /\ after[Len(after)].chat_id = c
                 /\ after[Len(after)].keyword = k
           /\ (Idle /\ h'.cmd = "removealert" /\ k # <<>>) =>
                 /\ \A i \in 1..Len(after) :
                        ~(after[i].chat_id = c /\ after[i].keyword = k)
                 /\ Len(after) = Len(before) - m
                 /\ \A i \in 1..Len(before) :
                        (before[i].chat_id # c \/ before[i].keyword # k) =>
                            \E j \in 1..Len(after) : after[j] = before[i]
                 /\ h'.removed = m
                 /\ h'.pc = "done"
                 /\ Len(sent') = 1
                 /\ sent'[1].to = c
                 /\ sent'[1].kind = IF m >= 1 THEN "removed"
                                              ELSE "no_alert_found"]_vars

\* a removal that found the two rows of a keyword subscribed twice
C8_RemovedBothDuplicates ==
    /\ h.cmd = "removealert" /\ h.pc = "done"
    /\ h.removed = 2
    /\ sent[1].kind = "removed"
    /\ \A i \in 1..Len(alerts[MEMORY_DB]) :
           ~(/\ alerts[MEMORY_DB][i].chat_id = str(h.chat_id)
             /\ alerts[MEMORY_DB][i].keyword = h.keyword)

(***************************************************************************)
(* The views on a store that many /news requests have filled: six topics   *)
(* asked by one chat, two of them by another one as well.                  *)
(***************************************************************************)
\* how many times a chat has asked one topic
MaxPerTopic == 2

T_india == lower(T_India)
T_ai == <<"a", "i">>
T_tea == <<"t", "e", "a">>

\* input_topic values /news stores: the default and lower-cased arguments
ViewTopics == <<T_india, DEFAULT_TOPIC, T_chip, T_air, T_ai, T_tea>>

\* the requests behind the store, one <<chat, topic>> per logged /news
RECURSIVE ViewRequests(_, _, _)
ViewRequests(mine, others, i) ==
    IF i > Len(ViewTopics) THEN <<>>
    ELSE [j \in 1..mine[i] |-> <<41, i>>]
            \o [j \in 1..others[i] |-> <<42, i>>]
            \o ViewRequests(mine, others, i + 1)

\* the interactions table those requests leave, one second apart
ViewTable(reqs) ==
    [j \in 1..Len(reqs) |->
        [id |-> j, chat_id |-> str(reqs[j][1]),
         input_topic |-> ViewTopics[reqs[j][2]],
         news_data |-> get_news_text(ViewTopics[reqs[j][2]],
                         [status |-> 200, network |-> FALSE,
                          articles |-> <<[title |-> ARTICLE_TITLE,
                                          description |-> NO_DESCRIPTION]>>]),
         summary |-> strip(SUMMARY_TEXT), timestamp |-> j]]

InitViews ==
    /\ cwd = AppDir
    /\ GNEWS_API_KEY = TRUE
    /\ GEMINI_API_KEY = TRUE
    /\ CHANNEL_ID = <<>>
    /\ tables = [d \in Dirs |-> d = AppDir]
    /\ \E mine \in [1..Len(ViewTopics) -> 0..MaxPerTopic] :
       \E others \in [1..Len(ViewTopics) -> 0..1] :
         /\ \A i \in 3..Len(ViewTopics) : others[i] = 0
         /\ interactions = [d \in Dirs |->
                IF d = AppDir THEN ViewTable(ViewRequests(mine, others, 1))
                ELSE <<>>]
    /\ alerts = [d \in Dirs |-> <<>>]
    /\ sqlite_sequence = [d \in Dirs |->
           [t \in {"interactions", "alerts"} |->
               IF t = "interactions" THEN Len(interactions[d]) ELSE 0]]
    /\ h = Frame0
    /\ sent = <<>>

NextViews ==
    \/ \E chat_id \in Chats : mytopics_command(chat_id)
    \/ \E chat_id \in Chats : trending_command(chat_id)

SpecViews == InitViews /\ [][NextViews]_vars

\* COUNT(*) of the rows of topic t among rows
TopicCount(rows, t) == Cardinality({r \in rows : r.input_topic = t})

\* result is a top-limit list of <<topic, count>> pairs over rows
TopList(result, rows, limit) ==
    LET topics == {r.input_topic : r \in rows}
        listed == {result[i][1] : i \in 1..Len(result)}
    IN  /\ Len(result) <= limit
        /\ \A i \in 1..Len(result) :
               /\ result[i][1] \in topics
               /\ result[i][2] = TopicCount(rows, result[i][1])
        /\ \A i, j \in 1..Len(result) :
               /\ i < j => result[i][2] >= result[j][2]
               /\ i # j => result[i][1] # result[j][1]
        /\ \A t \in topics \ listed :
               /\ Len(result) = limit
               /\ \A i \in 1..Len(result) :
                      TopicCount(rows, t) <= result[i][2]

(* C10: /mytopics of chat c lists at most 5 <<topic, count>> pairs, each
   count the number of the records of c with that topic and of no other
   chat, the counts not increasing down the list, and no topic of c left
   out has a larger count than a listed one; /trending lists the same over
   the records of all chats. *)
C10_TopTopics ==
    /\ (h.cmd = "mytopics" /\ h.pc = "done") =>
          TopList(h.result,
                  {r \in RowsOf(interactions[MEMORY_DB]) :
                      r.chat_id = str(h.chat_id)}, 5)
    /\ (h.cmd = "trending" /\ h.pc = "done") =>
          TopList(h.result, RowsOf(interactions[MEMORY_DB]), 5)

\* /mytopics cut to 5 of the 6 topics of a chat, counts differing, a topic
\* of another chat's records among them
C10_SixthTopicLeftOut ==
    /\ h.cmd = "mytopics" /\ h.pc = "done"
    /\ Len(h.result) = 5
    /\ h.result[1][2] > h.result[5][2]
    /\ Cardinality({r.input_topic : r \in
          {x \in RowsOf(interactions[MEMORY_DB]) :
              x.chat_id = str(h.chat_id)}}) = 6
    /\ \E r \in RowsOf(interactions[MEMORY_DB]) :
          /\ r.chat_id # str(h.chat_id)
          /\ r.input_topic = h.result[1][1]

(***************************************************************************)
(* /discover on a store of one topic more than its LIMIT: eleven topics    *)
(* another chat has asked, some of them asked by the requesting chat too.  *)
(***************************************************************************)
DiscoverTopics ==
    <<T_india, DEFAULT_TOPIC, T_chip, T_air, T_ai, T_tea,
      <<"t", "o", "p">>, <<"g", "o", "l", "d">>, <<"o", "i", "l">>,
      <<"r", "a", "i", "n">>, <<"t", "a", "x">>>>

\* how often chat 42 has asked each of the topics
DiscoverAsked == <<9, 9, 7, 7, 5, 5, 3, 3, 1, 1, 1>>

RECURSIVE DiscoverRequests(_, _, _)
DiscoverRequests(mine, others, i) ==
    IF i > Len(DiscoverTopics) THEN <<>>
    ELSE [j \in 1..mine[i] |-> <<41, i>>]
            \o [j \in 1..others[i] |-> <<42, i>>]
            \o DiscoverRequests(mine, others, i + 1)

DiscoverTable(reqs) ==
    [j \in 1..Len(reqs) |->
        [id |-> j, chat_id |-> str(reqs[j][1]),
         input_topic |-> DiscoverTopics[reqs[j][2]],
         news_data |-> get_news_text(DiscoverTopics[reqs[j][2]],
                         [status |-> 200, network |-> FALSE,
                          articles |-> <<[title |-> ARTICLE_TITLE,
                                          description |-> NO_DESCRIPTION]>>]),
         summary |-> strip(SUMMARY_TEXT), timestamp |-> j]]

InitDiscover ==
    /\ cwd = AppDir
    /\ GNEWS_API_KEY = TRUE
    /\ GEMINI_API_KEY = TRUE
    /\ CHANNEL_ID = <<>>
    /\ tables = [d \in Dirs |-> d = AppDir]
    /\ \E mine \in [1..Len(DiscoverTopics) -> 0..1] :
       \E asked \in BOOLEAN :
         LET others == [i \in 1..Len(DiscoverTopics) |->
                           IF asked THEN DiscoverAsked[i] ELSE 0]
         IN  /\ asked \/ Cardinality({i \in DOMAIN mine : mine[i] = 1}) <= 2
             /\ interactions = [d \in Dirs |->
                    IF d = AppDir
                    THEN DiscoverTable(DiscoverRequests(mine, others, 1))
                    ELSE <<>>]
    /\ alerts = [d \in Dirs |-> <<>>]
    /\ sqlite_sequence = [d \in Dirs |->
           [t \in {"interactions", "alerts"} |->
               IF t = "interactions" THEN Len(interactions[d]) ELSE 0]]
    /\ h = Frame0
    /\ sent = <<>>

NextDiscover == \E chat_id \in Chats : discover_command(chat_id)

SpecDiscover == InitDiscover /\ [][NextDiscover]_vars

\* the sets of topics a top-n list over rows may hold
TopSets(rows, n) ==
    LET topics == {r.input_topic : r \in rows}
    IN  {T \in SUBSET topics :
            /\ Cardinality(T) = IF Cardinality(topics) < n
                                THEN Cardinality(topics) ELSE n
            /\ \A t \in T : \A u \in topics \ T :
                   TopicCount(rows, u) <= TopicCount(rows, t)}

(* C11: /discover of chat c lists exactly the topics of the global top-10
   list that c has no record for: no topic c has asked, every top-10 topic
   c has not asked, and the "already explored" answer exactly when none is
   left, an empty store included. *)
C11_DiscoverIsTopTenMinusMine ==
    (h.cmd = "discover" /\ h.pc = "done") =>
        LET rows == RowsOf(interactions[MEMORY_DB])
            mine == {r.input_topic :
                        r \in {x \in rows : x.chat_id = str(h.chat_id)}}
        IN  /\ h.unexplored \cap mine = {}
            /\ \E T \in TopSets(rows, 10) : h.unexplored = T \ mine
            /\ Len(sent) = 1
            /\ sent[1].kind = "discover_none" <=> h.unexplored = {}
            /\ sent[1].kind = "discover" <=> h.unexplored # {}
            /\ sent[1].text = h.unexplored

\* a list with topics to explore, the chat having asked some topics, and an
\* eleventh topic the chat has not asked cut by the limit
C11_EleventhTopicCut ==
    /\ h.cmd = "discover" /\ h.pc = "done"
    /\ h.unexplored # {}
    /\ LET rows == RowsOf(interactions[MEMORY_DB])
           mine == {r.input_topic :
                       r \in {x \in rows : x.chat_id = str(h.chat_id)}}
       IN  /\ mine # {}
           /\ Cardinality({r.input_topic : r \in rows}) = 11
           /\ \E r \in rows : r.input_topic \notin mine \cup h.unexplored

(***************************************************************************)
(* notify_alerts on texts and keywords chosen for the pattern: keywords    *)
(* with pattern metacharacters and non-word characters at their ends.      *)
(***************************************************************************)
\* keywords as /alert stores them
MatchKeywords ==
    {<<"a", "i", "r">>,
     <<"c", "h", "i", "p">>,
     <<"c", "+", "+">>,
     <<"a", ".", "i">>}

\* titles of articles GNews returns
MatchTitles ==
    {ARTICLE_TITLE,
     <<"C", "+", "+", "x", " ", "f", "o", "r", " ", "a", "i", "r", "l", "i", "n", "e", "s">>,
     <<"L", "e", "a", "r", "n", " ", "C", "+", "+", " ", "t", "o", "d", "a", "y", ",", " ", "A", ".", "I", " ", "t", "o", "o">>,
     <<"N", "e", "w", " ", "a", "x", "i", " ", "b", "u", "s">>}

\* the /news handler after news_data = await get_news(input_topic)
InitMatch ==
    /\ cwd = AppDir
    /\ GNEWS_API_KEY = TRUE
    /\ GEMINI_API_KEY = TRUE
    /\ CHANNEL_ID = <<>>
    /\ tables = [d \in Dirs |-> d = AppDir]
    /\ interactions = [d \in Dirs |-> <<>>]
    /\ \E k1 \in MatchKeywords, k2 \in MatchKeywords, c \in Chats :
         alerts = [d \in Dirs |->
            IF d = AppDir
            THEN insert_alert(insert_alert(<<>>, 1, str(41), k1), 2, str(c), k2)
            ELSE <<>>]
    /\ sqlite_sequence = [d \in Dirs |->
           [t \in {"interactions", "alerts"} |->
               IF t = "alerts" THEN Len(alerts[d]) ELSE 0]]
    /\ \E title \in MatchTitles :
         h = [Frame0 EXCEPT !.cmd = "news", !.chat_id = 42,
                            !.input_topic = DEFAULT_TOPIC,
                            !.news_data = get_news_text(DEFAULT_TOPIC,
                                [status |-> 200, network |-> FALSE,
                                 articles |-> <<[title |-> title,
                                     description |-> NO_DESCRIPTION]>>]),
                            !.pc = "notify_alerts"]
    /\ sent = <<Msg(str(42), "searching", DEFAULT_TOPIC, TRUE)>>

NextMatch == notify_alerts_select \/ notify_alerts_loop

SpecMatch == InitMatch /\ [][NextMatch]_vars

\* exactly one of the characters before and after position p of text is a
\* word character
WordEdge(text, p) ==
    (p >= 1 /\ text[p] \in WordChars)
        # (p < Len(text) /\ text[p + 1] \in WordChars)

\* k occurs in text as it is written, letters of either case, with a word
\* edge before its first and after its last character
LiteralWord(k, text) ==
    \E p \in 0..(Len(text) - Len(k)) :
        /\ \A j \in 1..Len(k) : lower(<<text[p + j]>>) = lower(<<k[j]>>)
        /\ WordEdge(text, p)
        /\ WordEdge(text, p + Len(k))

(* C12: a row (c, k) of the registry qualifies in notify_alerts iff k,
   read as a literal string, occurs in the text in either case with a word
   boundary on both sides, whatever characters k is made of; a chat is sent
   a notification iff one of its rows qualifies. *)
C12_KeywordMatchesAsLiteralWord ==
    (h.cmd = "news" /\ h.idx >= 1) =>
        /\ \A i \in 1..Len(h.rows) :
               re_search(alert_pattern(h.rows[i][2]), h.news_data)
                   <=> LiteralWord(h.rows[i][2], h.news_data)
        /\ h.pc = "notified" =>
               \A c \in Chats :
                   AlertsTo(str(c)) # <<>>
                       <=> \E i \in 1..Len(h.rows) :
                               /\ h.rows[i][1] = str(c)
                               /\ LiteralWord(h.rows[i][2], h.news_data)

\* a pass that notified a keyword ending in a pattern metacharacter and
\* left out a keyword that is only part of a longer word of the text
C12_PlusNotifiedAirlinesNot ==
    /\ h.cmd = "news" /\ h.pc = "notified"
    /\ \E i, j \in 1..Len(h.rows) :
          /\ h.rows[i][2] = <<"c", "+", "+">>
          /\ \E m \in 1..Len(sent) :
                /\ sent[m].kind = "alert"
                /\ sent[m].to = h.rows[i][1]
                /\ sent[m].text = h.rows[i][2]
          /\ h.rows[j][2] = <<"a", "i", "r">>
          /\ AlertsTo(h.rows[j][1]) = <<>>

(* C13: /history queries with a positive limit whatever its argument, a
   missing, non-numeric, zero or negative one being replaced by 3, so a chat
   with a record in the store is never answered "No history found yet". *)
C13_HistoryLimitPositive ==
    (/\ h.cmd = "history" /\ h.pc = "done"
     /\ \E r \in RowsOf(interactions[MEMORY_DB]) :
            r.chat_id = str(h.chat_id)) =>
        /\ h.n >= 1
        /\ h.result # <<>>
        /\ sent[1].kind = "history"

(* C14: the interaction log is append-only: no command changes or removes
   a record once written, and every new record gets an id greater than
   every id given before it. *)
C14_InteractionsAppendOnly ==
    [][\A d \in Dirs :
          LET old == interactions[d]
              new == interactions'[d]
          IN  /\ Len(new) >= Len(old)
              /\ SubSeq(new, 1, Len(old)) = old
              /\ \A i \in (Len(old) + 1)..Len(new) :
                     \A j \in 1..(i - 1) : new[j].id < new[i].id]_vars

\* a command of the registry run on a log of two records of one chat and
\* topic, both kept
C14_TwoRecordsKept ==
    /\ h.cmd \in {"removealert", "history", "discover"} /\ h.pc = "done"
    /\ Len(interactions[DB_PATH]) = 2
    /\ interactions[DB_PATH][1].chat_id = interactions[DB_PATH][2].chat_id
    /\ interactions[DB_PATH][1].input_topic
           = interactions[DB_PATH][2].input_topic
    /\ interactions[DB_PATH][1].id < interactions[DB_PATH][2].id

(* C15: a /news request whose fetch succeeded and whose summary came
   without error has appended exactly one record when it ends, whether or
   not the digest reached the chat or the channel; no request appends more
   than one. *)
C15_OneRecordPerSummarizedRequest ==
    /\ h.cmd = "news" => h.logged <= 1
    /\ (/\ NewsEnded /\ FetchSucceeded
        /\ h.summary # <<>> /\ ~summarize_error(h.summary)) =>
           /\ h.logged = 1
           /\ \E r \in RowsOf(interactions[DB_PATH]) :
                 /\ r.chat_id = str(h.chat_id)
                 /\ r.input_topic = h.input_topic
                 /\ r.news_data = h.news_data
                 /\ r.summary = h.summary

\* the /news handler is about to summarise or has done so
SummarizeStarted ==
    h.cmd = "news" /\ (h.pc = "summarize" \/ h.summary # <<>>)

(* C16: within one /news request notify_alerts has completed before
   summarize_with_ai starts: every chat with a registry row the fetched
   text qualifies for has been notified by then, no alert follows the
   answer to the request, and this is so when the summary fails and no
   record is written. *)
C16_AlertsBeforeSummary ==
    SummarizeStarted =>
        /\ \A i \in 1..Len(alerts[DB_PATH]) :
               LET r == alerts[DB_PATH][i]
               IN  re_search(alert_pattern(r.keyword), h.news_data) =>
                       \E j \in 1..Len(sent) :
                           /\ sent[j].kind = "alert"
                           /\ sent[j].to = r.chat_id
                           /\ sent[j].ok
        /\ \A j \in 1..Len(sent) :
               sent[j].kind = "alert" =>
                   \A m \in 1..(j - 1) :
                       sent[m].kind \in {"searching", "alert"}

\* a request that notified a chat, then failed to summarise and wrote no
\* record
C16_NotifiedThenSummaryFailed ==
    /\ h.cmd = "news" /\ h.pc = "done"
    /\ summary_failed(h.summary)
    /\ h.logged = 0
    /\ interactions[DB_PATH] = <<>>
    /\ \E j \in 1..Len(sent) : sent[j].kind = "alert" /\ sent[j].ok

(* C17: a row of the registry goes away only by a /removealert of its chat
   naming its keyword: that command leaves every row of another chat or
   another keyword as it is, every other command and notify_alerts leave
   all rows as they are, /alert only adds a row; every stored keyword is
   lower-cased, trimmed and not empty. *)
C17_OnlyRemovealertDeletesItsRows ==
    [][\A d \in Dirs :
          LET old == alerts[d]
              new == alerts'[d]
              removing == /\ Idle /\ h'.cmd = "removealert"
                          /\ h'.keyword # <<>> /\ d = MEMORY_DB
              mine(r) == /\ r.chat_id = str(h'.chat_id)
                         /\ r.keyword = h'.keyword
          IN  /\ removing =>
                    new = SelectSeq(old, LAMBDA r : ~mine(r))
              /\ ~removing =>
                    /\ Len(new) >= Len(old)
                    /\ SubSeq(new, 1, Len(old)) = old
                    /\ Len(new) > Len(old) =>
                          /\ Idle /\ h'.cmd = "alert"
                          /\ Len(new) = Len(old) + 1
              /\ \A i \in 1..Len(new) :
                    /\ new[i].keyword # <<>>
                    /\ new[i].keyword = strip(lower(new[i].keyword))]_vars

\* a /removealert that deleted the row of its chat and kept the row another
\* chat has for the same keyword
C17_OtherChatKeepsKeyword ==
    /\ h.cmd = "removealert" /\ h.pc = "done"
    /\ h.removed = 1
    /\ \E i \in 1..Len(alerts[MEMORY_DB]) :
          /\ alerts[MEMORY_DB][i].keyword = h.keyword
          /\ alerts[MEMORY_DB][i].chat_id # str(h.chat_id)

(***************************************************************************)
(* Handlers run concurrently: while the /news handler is suspended at an   *)
(* await, the handlers of other updates run their statements on the        *)
(* registry.  (main builds the application without concurrent_updates, so  *)
(* the dispatcher itself awaits one handler after the other; this          *)
(* specification allows every interleaving at the awaits.)                 *)
(***************************************************************************)
\* the statements of alert_command between its start and its await
alert_command_concurrent(chat_id, args) ==
    /\ args # <<>>
    /\ Room
    /\ LET keyword == lower(strip(join(<<" ">>, args)))
           id == sqlite_sequence[MEMORY_DB]["alerts"] + 1
       IN  /\ alerts' = [alerts EXCEPT ![MEMORY_DB] =
                           insert_alert(@, id, str(chat_id), keyword)]
           /\ sqlite_sequence' =
                  [sqlite_sequence EXCEPT ![MEMORY_DB]["alerts"] = id]
    /\ UNCHANGED <<env, interactions, h, sent>>

\* the statements of removealert_command between its start and its await
removealert_command_concurrent(chat_id, args) ==
    /\ args # <<>>
    /\ LET keyword == lower(strip(join(<<" ">>, args)))
       IN  /\ delete_rowcount(alerts[MEMORY_DB], str(chat_id), keyword) # 0
           /\ alerts' = [alerts EXCEPT ![MEMORY_DB] =
                           delete_alert(@, str(chat_id), keyword)]
    /\ UNCHANGED <<env, interactions, sqlite_sequence, h, sent>>

\* the keywords the concurrent handlers are given: one the article holds
\* as a word, one it does not
ConcurrentArgs == {<<T_chip>>, <<T_air>>}

\* started beside app.py with both keys: one registry file
InitConcurrent == Init /\ cwd = AppDir /\ GNEWS_API_KEY /\ GEMINI_API_KEY

NextConcurrent ==
    \/ \E chat_id \in Chats, args \in TopicArgs : news_command(chat_id, args)
    \/ news_get_news
    \/ notify_alerts_select
    \/ notify_alerts_loop
    \/ \E chat_id \in Chats, args \in ConcurrentArgs :
          alert_command_concurrent(chat_id, args)
    \/ \E chat_id \in Chats, args \in ConcurrentArgs :
          removealert_command_concurrent(chat_id, args)

SpecConcurrent == InitConcurrent /\ [][NextConcurrent]_vars

\* the <<chat, keyword>> pairs of the alerts handed to the transport
AlertPairs ==
    {<<sent[j].to, sent[j].text>> :
        j \in {m \in 1..Len(sent) : sent[m].kind = "alert"}}

\* the pairs a snapshot and a text decide: for each chat the first row of
\* the snapshot whose keyword matches the text
SnapshotPairs(rows, text) ==
    {<<rows[i][1], rows[i][2]>> :
        i \in {m \in 1..Len(rows) :
                 /\ LiteralWord(rows[m][2], text)
                 /\ \A j \in 1..(m - 1) :
                        rows[j][1] = rows[m][1] =>
                            ~LiteralWord(rows[j][2], text)}}

(* C18: one pass of notify_alerts decides on the rows it read at its
   start: whatever /alert and /removealert do to the registry while the
   pass is suspended, the notifications it emits are those the snapshot and
   the text decide, so a row added during the pass is not notified and a
   row removed during it is. *)
C18_NotifiesFromSnapshot ==
    [][/\ (h.pc = "notify_alerts" /\ h'.pc = "notify_loop") =>
              {<<h'.rows[i][1], h'.rows[i][2]>> : i \in 1..Len(h'.rows)}
                  = {<<r.chat_id, r.keyword>> : r \in RowsOf(alerts[DB_PATH])}
       /\ h.pc = "notify_loop" =>
              /\ h'.rows = h.rows
              /\ h'.news_data = h.news_data
       /\ (h'.cmd = "news" /\ h'.pc = "notified") =>
              AlertPairs' = SnapshotPairs(h'.rows, h'.news_data)
       /\ (h'.cmd = "news" /\ h'.pc \in {"notify_loop", "raised"}) =>
              AlertPairs' \subseteq SnapshotPairs(h'.rows, h'.news_data)
      ]_vars

\* a pass suspended in its last send, no row of its snapshot left: it has
\* notified a row that is no more in the registry, and the registry holds
\* a matching row of another chat that the snapshot does not hold
C18_RemovedNotifiedAddedNot ==
    /\ h.cmd = "news" /\ h.pc = "notify_loop"
    /\ h.idx > Len(h.rows)
    /\ \E p \in AlertPairs :
          \A r \in RowsOf(alerts[DB_PATH]) :
              <<r.chat_id, r.keyword>> # p
    /\ \E r \in RowsOf(alerts[DB_PATH]) :
          /\ LiteralWord(r.keyword, h.news_data)
          /\ \A p \in AlertPairs : p[1] # r.chat_id
          /\ \A i \in 1..Len(h.rows) :
                 <<h.rows[i][1], h.rows[i][2]>> # <<r.chat_id, r.keyword>>

(* C19: no handler holds a connection or an uncommitted statement across
   an await: in every command handler and in notify_alerts each connection
   is opened, used and closed between two awaits, so a handler scheduled at
   an await finds every operation of the others on the store complete. *)
C19_NoConnectionAcrossAwait ==
    h.pc # "raised" => h.conn = [open |-> 0, tx |-> FALSE]

\* the /news handler suspended in the send of an alert, the rows it read
\* still to be gone through, its connection closed
C19_SuspendedInAlertLoop ==
    /\ h.cmd = "news" /\ h.pc = "notify_loop"
    /\ Len(h.rows) = 2 /\ h.idx = 2
    /\ \E j \in 1..Len(sent) : sent[j].kind = "alert"
    /\ h.conn.open = 0

=============================================================================
